---- MODULE Spec2Model ----
(***************************************************************************)
(* Model of src/app.js: the in-memory bank ledger (Account, the Deposit /  *)
(* Withdraw / Transfer commands, TransactionManager) and the App facade    *)
(* that drives it.                                                         *)
(*                                                                         *)
(* Numbers are JavaScript doubles in the source; the model uses integers   *)
(* (whole currency units), on which double addition is exact.  Interest is *)
(* kept in hundredths of a unit, as the exact value of balance * 3 / 100   *)
(* and balance * 7 / 100; the source rounds that product to the nearest    *)
(* double.                                                                 *)
(*                                                                         *)
(* Object references (Customer, Account) are modelled by their position    *)
(* in App.customers / App.accounts, which never shrink or reorder.         *)
(***************************************************************************)
EXTENDS Integers, Sequences, FiniteSets, TLC

\* ---------------------------------------------------------------------
\* Bounds of the model
\* ---------------------------------------------------------------------
MaxCustomers == 2
MaxAccounts == 2
MaxHistory == 2
MaxBalance == 3
MaxAmount == 2
MaxCommands == 3

\* ---------------------------------------------------------------------
\* Input domains
\* ---------------------------------------------------------------------
Names == {"Shivani"}
\* value of the acctType select; anything else falls to the default branch
AcctTypes == {"savings", "current", "fixed", "generic"}
StrategyKeys == {"savings", "fixed", "current"}
\* Number(input) || 0 : any number, zero and negatives included
SignedAmounts == (0 - 1) .. MaxAmount
Amounts == 1 .. MaxAmount
InitialBalances == {0, MaxAmount}
\* ids a caller may pass: Number('') = 0 and ids never issued are included
AccountIds == 0 .. MaxAccounts
OwnerIdxs == 0 .. (MaxCustomers - 1)
BalanceRange == (0 - MaxBalance) .. MaxBalance

VARIABLES
  customers,      \* App.customers : sequence of Customer (its name)
  accounts,       \* App.accounts  : sequence of Account records
  accountIdSeq,   \* the module-level id counter
  history,        \* tm.history    : sequence of commands
  notified,       \* messages handed to UI.notify by the latest operation, oldest first
  lastOp,         \* the latest operation, its arguments and outcome
  run,            \* the current unbroken run of successful deposits/withdrawals on one account
  audit           \* the audit trail of command instances (see AuditOff)

vars == <<customers, accounts, accountIdSeq, history, notified, lastOp, run, audit>>

\* ---------------------------------------------------------------------
\* Messages
\* ---------------------------------------------------------------------
\* to = 0 is the ambient UI sink (an operational notice); to = c > 0 is
\* Customer c's update callback, which forwards to UI.notify with its name.
Notice(text, acct) ==
  [to |-> 0, name |-> "", acct |-> acct, typeName |-> "", text |-> text,
   delta |-> 0, balance |-> 0]

\* Customer.update, applied to the message Account.notify builds
CustomerUpdate(c, name, acct, typeName, reason, delta, balance) ==
  [to |-> c, name |-> name, acct |-> acct, typeName |-> typeName, text |-> reason,
   delta |-> delta, balance |-> balance]

\* ---------------------------------------------------------------------
\* Interest strategies, in hundredths of a currency unit
\* ---------------------------------------------------------------------
\* variant: a rate of 0.3
SavingsInterestTenfold(balance) == balance * 30

SavingsInterest(balance) == balance * 3
FixedDepositInterest(balance) == balance * 7
CurrentInterest(balance) == 0

StrategyCalculate(strategy, balance) ==
  CASE strategy = "savings" -> SavingsInterest(balance)
    [] strategy = "fixed" -> FixedDepositInterest(balance)
    [] OTHER -> CurrentInterest(balance)

\* ---------------------------------------------------------------------
\* Account
\* ---------------------------------------------------------------------
\* new Account(owner, initialBalance) followed by the subclass constructor
NewAccount(type, id, owner, initial) ==
  [id |-> id, owner |-> owner, balance |-> initial, observers |-> <<>>,
   interestStrategy |-> CASE type = "savings" -> "savings"
                          [] type = "fixed" -> "fixed"
                          [] OTHER -> "current",
   typeName |-> CASE type = "savings" -> "Savings"
                  [] type = "current" -> "Current"
                  [] type = "fixed" -> "FixedDeposit"
                  [] OTHER -> "Generic"]

Includes(seq, x) == \E i \in 1 .. Len(seq) : seq[i] = x

\* variant: attach without the includes test
AccountAttachAlways(acct, observer) == [acct EXCEPT !.observers = Append(@, observer)]

AccountAttach(acct, observer) ==
  IF Includes(acct.observers, observer) THEN acct
  ELSE [acct EXCEPT !.observers = Append(@, observer)]

AccountDetach(acct, observer) ==
  [acct EXCEPT !.observers = SelectSeq(@, LAMBDA o : o # observer)]

\* Account.notify: one Customer.update per attached observer, in list order
AccountNotify(custs, acct, reason, delta) ==
  [i \in 1 .. Len(acct.observers) |->
     CustomerUpdate(acct.observers[i], custs[acct.observers[i]], acct.id, acct.typeName,
                    reason, delta, acct.balance)]

\* variant: the balance changes without a notification
UpdateBalanceSilent(w, i, delta, reason) ==
  [w EXCEPT !.accounts = [w.accounts EXCEPT ![i].balance = @ + delta]]

\* variant: the balance is assigned instead of incremented
UpdateBalanceAssign(w, i, delta, reason) ==
  LET accts == [w.accounts EXCEPT ![i].balance = delta]
  IN [w EXCEPT !.accounts = accts,
               !.out = @ \o AccountNotify(w.customers, accts[i], reason, delta)]

\* A world w is [customers, accounts, out]: the ledger plus the messages emitted so far.
\* Account.updateBalance on the account at position i.
UpdateBalance(w, i, delta, reason) ==
  LET accts == [w.accounts EXCEPT ![i].balance = @ + delta]
  IN [w EXCEPT !.accounts = accts,
               !.out = @ \o AccountNotify(w.customers, accts[i], reason, delta)]

UINotify(w, msg) == [w EXCEPT !.out = Append(@, msg)]

AccountCalculateInterest(acct) == StrategyCalculate(acct.interestStrategy, acct.balance)

\* ---------------------------------------------------------------------
\* Commands.  A command holds positions of accounts (object references).
\* ---------------------------------------------------------------------
\* applied records whether execute() reached updateBalance; a new command has not run.
DepositCommand(i, amount) ==
  [type |-> "Deposit", from |-> i, to |-> 0, amount |-> amount, applied |-> FALSE]
WithdrawCommand(i, amount) ==
  [type |-> "Withdraw", from |-> i, to |-> 0, amount |-> amount, applied |-> FALSE]
TransferCommand(i, j, amount) ==
  [type |-> "Transfer", from |-> i, to |-> j, amount |-> amount, applied |-> FALSE]

DepositExecute(w, cmd) == UpdateBalance(w, cmd.from, cmd.amount, "Deposit")
DepositUndo(w, cmd) == UpdateBalance(w, cmd.from, 0 - cmd.amount, "Undo Deposit")

\* variant: the comparison is turned around
InsufficientFundsReversed(w, cmd) == w.accounts[cmd.from].balance > cmd.amount

\* the insufficient-funds guard of Withdraw.execute and Transfer.execute
InsufficientFunds(w, cmd) == w.accounts[cmd.from].balance < cmd.amount

\* variant: the guard reports but does not return
WithdrawExecuteNoReturn(w, cmd) ==
  IF InsufficientFunds(w, cmd)
  THEN UpdateBalance(UINotify(w, Notice("Withdraw failed: insufficient funds",
                                        w.accounts[cmd.from].id)),
                     cmd.from, 0 - cmd.amount, "Withdraw")
  ELSE UpdateBalance(w, cmd.from, 0 - cmd.amount, "Withdraw")

WithdrawExecute(w, cmd) ==
  IF InsufficientFunds(w, cmd)
  THEN UINotify(w, Notice("Withdraw failed: insufficient funds", w.accounts[cmd.from].id))
  ELSE UpdateBalance(w, cmd.from, 0 - cmd.amount, "Withdraw")
\* variant: undo debits once more
WithdrawUndoDebits(w, cmd) == UpdateBalance(w, cmd.from, 0 - cmd.amount, "Undo Withdraw")

WithdrawUndo(w, cmd) == UpdateBalance(w, cmd.from, cmd.amount, "Undo Withdraw")

\* variant: the credit of the destination is missing
TransferExecuteDebitOnly(w, cmd) ==
  IF InsufficientFunds(w, cmd)
  THEN UINotify(w, Notice("Transfer failed: insufficient funds", w.accounts[cmd.from].id))
  ELSE UpdateBalance(w, cmd.from, 0 - cmd.amount, "Transfer ->")

\* variant: the destination is credited before the source is debited
TransferExecuteCreditFirst(w, cmd) ==
  IF InsufficientFunds(w, cmd)
  THEN UINotify(w, Notice("Transfer failed: insufficient funds", w.accounts[cmd.from].id))
  ELSE UpdateBalance(UpdateBalance(w, cmd.to, cmd.amount, "Transfer <-"),
                     cmd.from, 0 - cmd.amount, "Transfer ->")

TransferExecute(w, cmd) ==
  IF InsufficientFunds(w, cmd)
  THEN UINotify(w, Notice("Transfer failed: insufficient funds", w.accounts[cmd.from].id))
  ELSE UpdateBalance(UpdateBalance(w, cmd.from, 0 - cmd.amount, "Transfer ->"),
                     cmd.to, cmd.amount, "Transfer <-")
\* variant: undo repeats the signs of execute's second update on both accounts
TransferUndoSameSign(w, cmd) ==
  UpdateBalance(UpdateBalance(w, cmd.from, cmd.amount, "Undo Transfer from"),
                cmd.to, cmd.amount, "Undo Transfer to")

TransferUndo(w, cmd) ==
  UpdateBalance(UpdateBalance(w, cmd.from, cmd.amount, "Undo Transfer from"),
                cmd.to, 0 - cmd.amount, "Undo Transfer to")

\* dynamic dispatch of cmd.execute() / cmd.undo()
CommandExecute(w, cmd) ==
  CASE cmd.type = "Deposit" -> DepositExecute(w, cmd)
    [] cmd.type = "Withdraw" -> WithdrawExecute(w, cmd)
    [] cmd.type = "Transfer" -> TransferExecute(w, cmd)
CommandUndo(w, cmd) ==
  CASE cmd.type = "Deposit" -> DepositUndo(w, cmd)
    [] cmd.type = "Withdraw" -> WithdrawUndo(w, cmd)
    [] cmd.type = "Transfer" -> TransferUndo(w, cmd)

\* whether cmd.execute() returns on its guard without calling updateBalance
ExecuteAborts(w, cmd) == cmd.type \in {"Withdraw", "Transfer"} /\ InsufficientFunds(w, cmd)

\* ---------------------------------------------------------------------
\* TransactionManager.  h is the history; the result is [w, history].
\* ---------------------------------------------------------------------
\* the command object after cmd.execute() has run in world w
Executed(w, cmd) == [cmd EXCEPT !.applied = ~ExecuteAborts(w, cmd)]

\* variant: only a command whose execute went through is recorded
TMExecuteCommandOnSuccess(w, h, cmd) ==
  [w |-> CommandExecute(w, cmd),
   history |-> IF ExecuteAborts(w, cmd) THEN h ELSE Append(h, Executed(w, cmd))]

TMExecuteCommand(w, h, cmd) ==
  [w |-> CommandExecute(w, cmd), history |-> Append(h, Executed(w, cmd))]

\* variant: the tail is read but left on the history
TMUndoLastPeek(w, h) ==
  IF Len(h) = 0
  THEN [w |-> UINotify(w, Notice("Nothing to undo", 0)), history |-> h]
  ELSE [w |-> CommandUndo(w, h[Len(h)]), history |-> h]

\* variant: shift instead of pop
TMUndoLastOldest(w, h) ==
  IF Len(h) = 0
  THEN [w |-> UINotify(w, Notice("Nothing to undo", 0)), history |-> h]
  ELSE [w |-> CommandUndo(w, h[1]), history |-> SubSeq(h, 2, Len(h))]

\* variant: an empty history is skipped without a notice
TMUndoLastSilent(w, h) ==
  IF Len(h) = 0
  THEN [w |-> w, history |-> h]
  ELSE [w |-> CommandUndo(w, h[Len(h)]), history |-> SubSeq(h, 1, Len(h) - 1)]

TMUndoLast(w, h) ==
  IF Len(h) = 0
  THEN [w |-> UINotify(w, Notice("Nothing to undo", 0)), history |-> h]
  ELSE [w |-> CommandUndo(w, h[Len(h)]), history |-> SubSeq(h, 1, Len(h) - 1)]

\* ---------------------------------------------------------------------
\* App helpers
\* ---------------------------------------------------------------------
\* accounts.find(a => a.id === Number(id)); 0 stands for undefined
FindAccountById(accts, id) ==
  IF \E i \in 1 .. Len(accts) : accts[i].id = id
  THEN CHOOSE i \in 1 .. Len(accts) :
         accts[i].id = id /\ \A j \in 1 .. (i - 1) : accts[j].id # id
  ELSE 0

Balances(accts) == [i \in 1 .. Len(accts) |-> accts[i].balance]
World == [customers |-> customers, accounts |-> accounts, out |-> <<>>]
InBounds(accts) == \A i \in 1 .. Len(accts) : accts[i].balance \in BalanceRange

\* Record of the latest operation: its name, its outcome, the account it named,
\* the command it executed or undid, the balances before an executed command
\* (for an undoLast that directly follows it: before that command), the value
\* it returned, and whether it directly follows: for undoLast, the
\* executeCommand of the command it pops or, on an empty history, another
\* undoLast on an empty history; for calcInterest, another calcInterest.
NoCmd == [type |-> "none", from |-> 0, to |-> 0, amount |-> 0, applied |-> FALSE]
Op(op, status) ==
  [op |-> op, status |-> status, acct |-> 0, cmd |-> NoCmd, pre |-> <<>>, ret |-> 0,
   follows |-> FALSE]
ExecuteOps == {"deposit", "withdraw", "transfer"}
\* run: position of the account, balances when the run began, signed sum and length so far
NoRun == [acct |-> 0, start |-> <<>>, sum |-> 0, n |-> 0]
SignedAmount(cmd) == IF cmd.type = "Deposit" THEN cmd.amount ELSE 0 - cmd.amount

\* The audit trail gives every constructed command (each `new XCommand`) a
\* serial number, 1, 2, ..., and follows it through the TransactionManager:
\*   issued    commands constructed so far
\*   executed  per serial, how often execute() ran on it
\*   undone    per serial, how often undo() ran on it
\*   serials   the serial of each entry of tm.history, in history order
\*   snaps     per entry of tm.history, the balances just before its execute()
\*   restored  the snapshot of the command the latest undoLast popped
\*   opening   each account's balance at its creation
\*   clean     no command has returned on its insufficient-funds guard
\*   streak    undoLast calls that popped a command since the latest execute
\* It is kept only where a specification starts from InitAudit; elsewhere it
\* stays switched off.
AuditOff ==
  [on |-> FALSE, issued |-> 0, executed |-> <<>>, undone |-> <<>>, serials |-> <<>>,
   snaps |-> <<>>, restored |-> <<>>, opening |-> <<>>, clean |-> TRUE, streak |-> 0]
AuditOn == [AuditOff EXCEPT !.on = TRUE]
Front(s) == SubSeq(s, 1, Len(s) - 1)

\* createAccount: the account appended, if any, opens with its constructor's balance
AuditCreate(accts) ==
  IF audit.on /\ Len(accts) > Len(accounts)
  THEN [audit EXCEPT !.opening = Append(@, accts[Len(accts)].balance)]
  ELSE audit

\* executeCommand(new XCommand(..)): a fresh instance, executed once; h2 is
\* the history afterwards
AuditExecute(h2, aborted) ==
  IF ~audit.on THEN audit
  ELSE LET s == audit.issued + 1
           pushed == Len(h2) > Len(history)
       IN [audit EXCEPT !.issued = s,
                        !.executed = Append(@, 1),
                        !.undone = Append(@, 0),
                        !.serials = IF pushed THEN Append(@, s) ELSE @,
                        !.snaps = IF pushed THEN Append(@, Balances(accounts)) ELSE @,
                        !.restored = <<>>,
                        !.clean = @ /\ ~aborted,
                        !.streak = 0]

\* undoLast: undo() runs on the instance at the tail of the history; h2 is the
\* history afterwards
AuditUndo(h2) ==
  IF ~audit.on \/ Len(history) = 0 THEN audit
  ELSE LET s == audit.serials[Len(audit.serials)]
           popped == Len(h2) < Len(history)
       IN [audit EXCEPT !.undone[s] = @ + 1,
                        !.serials = IF popped THEN Front(@) ELSE @,
                        !.restored = audit.snaps[Len(audit.snaps)],
                        !.snaps = IF popped THEN Front(@) ELSE @,
                        !.streak = @ + 1]

\* ---------------------------------------------------------------------
\* Initial state: the module has been loaded, nothing created yet
\* ---------------------------------------------------------------------
Init ==
  /\ customers = <<>>
  /\ accounts = <<>>
  /\ accountIdSeq = 1
  /\ history = <<>>
  /\ notified = <<>>
  /\ lastOp = Op("init", "ok")
  /\ run = NoRun
  /\ audit = AuditOff

\* ---------------------------------------------------------------------
\* App operations
\* ---------------------------------------------------------------------
AddCustomer(name) ==
  /\ customers' = Append(customers, name)
  /\ notified' = <<Notice("Added customer", 0)>>
  /\ lastOp' = Op("addCustomer", "ok")
  /\ run' = NoRun
  /\ UNCHANGED <<accounts, accountIdSeq, history, audit>>

\* variant: the id counter is read but not advanced
CreateAccountSameId(type, ownerIdx, initial) ==
  /\ IF ownerIdx + 1 > Len(customers)
     THEN /\ notified' = <<Notice("Select an owner", 0)>>
          /\ lastOp' = Op("createAccount", "rejected")
          /\ UNCHANGED <<accounts, accountIdSeq>>
     ELSE LET account == AccountAttach(NewAccount(type, accountIdSeq, ownerIdx + 1, initial),
                                       ownerIdx + 1)
          IN /\ accounts' = Append(accounts, account)
             /\ accountIdSeq' = accountIdSeq
             /\ notified' = <<Notice("Created", account.id)>>
             /\ lastOp' = [Op("createAccount", "ok") EXCEPT !.acct = account.id]
  /\ run' = NoRun
  /\ UNCHANGED <<customers, history>>
  /\ audit' = AuditCreate(accounts')

\* variant: the account is constructed before the owner is tested
CreateAccountEager(type, ownerIdx, initial) ==
  /\ IF ownerIdx + 1 > Len(customers)
     THEN /\ notified' = <<Notice("Select an owner", 0)>>
          /\ lastOp' = Op("createAccount", "rejected")
          /\ accountIdSeq' = accountIdSeq + 1
          /\ UNCHANGED accounts
     ELSE LET account == AccountAttach(NewAccount(type, accountIdSeq, ownerIdx + 1, initial),
                                       ownerIdx + 1)
          IN /\ accounts' = Append(accounts, account)
             /\ accountIdSeq' = accountIdSeq + 1
             /\ notified' = <<Notice("Created", account.id)>>
             /\ lastOp' = [Op("createAccount", "ok") EXCEPT !.acct = account.id]
  /\ run' = NoRun
  /\ UNCHANGED <<customers, history>>
  /\ audit' = AuditCreate(accounts')

CreateAccount(type, ownerIdx, initial) ==
  /\ IF ownerIdx + 1 > Len(customers)
     THEN /\ notified' = <<Notice("Select an owner", 0)>>
          /\ lastOp' = Op("createAccount", "rejected")
          /\ UNCHANGED <<accounts, accountIdSeq>>
     ELSE LET account == AccountAttach(NewAccount(type, accountIdSeq, ownerIdx + 1, initial),
                                       ownerIdx + 1)
          IN /\ accounts' = Append(accounts, account)
             /\ accountIdSeq' = accountIdSeq + 1
             /\ notified' = <<Notice("Created", account.id)>>
             /\ lastOp' = [Op("createAccount", "ok") EXCEPT !.acct = account.id]
  /\ run' = NoRun
  /\ UNCHANGED <<customers, history>>
  /\ audit' = AuditCreate(accounts')

\* the tail shared by deposit, withdraw and transfer: tm.executeCommand(cmd)
Submit(op, cmd) ==
  LET r == TMExecuteCommand(World, history, cmd)
      aborted == ExecuteAborts(World, cmd)
  IN /\ accounts' = r.w.accounts
     /\ history' = r.history
     /\ notified' = r.w.out
     /\ lastOp' = [Op(op, IF aborted THEN "aborted" ELSE "applied")
                     EXCEPT !.acct = accounts[cmd.from].id, !.cmd = Executed(World, cmd),
                            !.pre = Balances(accounts)]
     /\ run' = IF aborted \/ cmd.type = "Transfer" THEN NoRun
               ELSE IF run.acct = cmd.from
                    THEN [run EXCEPT !.sum = @ + SignedAmount(cmd), !.n = @ + 1]
                    ELSE [acct |-> cmd.from, start |-> Balances(accounts),
                          sum |-> SignedAmount(cmd), n |-> 1]
     /\ UNCHANGED <<customers, accountIdSeq>>
     /\ audit' = AuditExecute(r.history, aborted)

Rejected(op, text) ==
  /\ notified' = <<Notice(text, 0)>>
  /\ lastOp' = Op(op, "rejected")
  /\ run' = NoRun
  /\ UNCHANGED <<customers, accounts, accountIdSeq, history, audit>>

Deposit(accountId, amount) ==
  LET i == FindAccountById(accounts, accountId)
  IN IF i = 0 THEN Rejected("deposit", "Select a valid account")
     ELSE Submit("deposit", DepositCommand(i, amount))

Withdraw(accountId, amount) ==
  LET i == FindAccountById(accounts, accountId)
  IN IF i = 0 THEN Rejected("withdraw", "Select a valid account")
     ELSE Submit("withdraw", WithdrawCommand(i, amount))

\* variant: no same-account test
TransferNoSelfCheck(fromId, toId, amount) ==
  LET i == FindAccountById(accounts, fromId)
      j == FindAccountById(accounts, toId)
  IN IF i = 0 \/ j = 0 THEN Rejected("transfer", "Select valid accounts")
     ELSE Submit("transfer", TransferCommand(i, j, amount))

Transfer(fromId, toId, amount) ==
  LET i == FindAccountById(accounts, fromId)
      j == FindAccountById(accounts, toId)
  IN IF i = 0 \/ j = 0 THEN Rejected("transfer", "Select valid accounts")
     ELSE IF accounts[i].id = accounts[j].id
          THEN Rejected("transfer", "Cannot transfer to same account")
          ELSE Submit("transfer", TransferCommand(i, j, amount))

UndoLast ==
  LET r == TMUndoLast(World, history)
  IN /\ accounts' = r.w.accounts
     /\ history' = r.history
     /\ notified' = r.w.out
     /\ lastOp' = IF Len(history) = 0
                  THEN [Op("undoLast", "rejected")
                          EXCEPT !.follows = (lastOp.op = "undoLast" /\ lastOp.status = "rejected")]
                  ELSE [Op("undoLast", "undone")
                          EXCEPT !.cmd = history[Len(history)],
                                 !.pre = (IF lastOp.op \in ExecuteOps /\ lastOp.status # "rejected"
                                          THEN lastOp.pre ELSE <<>>),
                                 !.follows = (lastOp.op \in ExecuteOps
                                              /\ lastOp.status # "rejected")]
     /\ run' = NoRun
     /\ UNCHANGED <<customers, accountIdSeq>>
     /\ audit' = AuditUndo(r.history)

\* variant: the strategy is set on every account
ApplyStrategyAll(accountId, key) ==
  LET i == FindAccountById(accounts, accountId)
  IN IF i = 0
     THEN Rejected("applyStrategy", "Select account to apply strategy")
     ELSE /\ accounts' = [k \in 1 .. Len(accounts) |->
                            [accounts[k] EXCEPT !.interestStrategy = key]]
          /\ notified' = <<Notice("Applied strategy", accounts[i].id)>>
          /\ lastOp' = [Op("applyStrategy", "ok") EXCEPT !.acct = accounts[i].id]
          /\ run' = NoRun
          /\ UNCHANGED <<customers, accountIdSeq, history, audit>>

ApplyStrategy(accountId, key) ==
  LET i == FindAccountById(accounts, accountId)
  IN IF i = 0
     THEN Rejected("applyStrategy", "Select account to apply strategy")
     ELSE /\ accounts' = [accounts EXCEPT ![i].interestStrategy = key]
          /\ notified' = <<Notice("Applied strategy", accounts[i].id)>>
          /\ lastOp' = [Op("applyStrategy", "ok") EXCEPT !.acct = accounts[i].id]
          /\ run' = NoRun
          /\ UNCHANGED <<customers, accountIdSeq, history, audit>>

CalcInterest(accountId) ==
  LET i == FindAccountById(accounts, accountId)
  IN IF i = 0
     THEN Rejected("calcInterest", "Select an account")
     ELSE /\ notified' = <<>>
          /\ lastOp' = [Op("calcInterest", "ok")
                          EXCEPT !.acct = accounts[i].id,
                                 !.follows = (lastOp.op = "calcInterest"),
                                 !.ret = AccountCalculateInterest(accounts[i])]
          /\ run' = NoRun
          /\ UNCHANGED <<customers, accounts, accountIdSeq, history, audit>>

\* Account.attach / Account.detach called on an existing account with an existing customer
Attach(i, c) ==
  /\ i \in 1 .. Len(accounts)
  /\ c \in 1 .. Len(customers)
  /\ accounts' = [accounts EXCEPT ![i] = AccountAttach(@, c)]
  /\ notified' = <<>>
  /\ lastOp' = [Op("attach", IF Includes(accounts[i].observers, c) THEN "present" ELSE "ok")
                  EXCEPT !.acct = accounts[i].id]
  /\ run' = NoRun
  /\ UNCHANGED <<customers, accountIdSeq, history, audit>>

Detach(i, c) ==
  /\ i \in 1 .. Len(accounts)
  /\ c \in 1 .. Len(customers)
  /\ accounts' = [accounts EXCEPT ![i] = AccountDetach(@, c)]
  /\ notified' = <<>>
  /\ lastOp' = [Op("detach", "ok") EXCEPT !.acct = accounts[i].id]
  /\ run' = NoRun
  /\ UNCHANGED <<customers, accountIdSeq, history, audit>>

\* ---------------------------------------------------------------------
\* Specifications.  The guards on lengths and balances keep the state
\* space finite; they are not part of the program.
\* ---------------------------------------------------------------------
RoomForCustomer == Len(customers) < MaxCustomers
RoomForAccount == Len(accounts) < MaxAccounts
RoomInHistory == Len(history) < MaxHistory

\* The ledger: customers, accounts, the three commands and undo.
Next ==
  \/ \E name \in Names : RoomForCustomer /\ AddCustomer(name)
  \/ \E type \in {"savings"}, ownerIdx \in {0}, initial \in InitialBalances :
       RoomForAccount /\ CreateAccount(type, ownerIdx, initial)
  \/ \E id \in AccountIds, amount \in Amounts :
       RoomInHistory /\ Deposit(id, amount) /\ InBounds(accounts')
  \/ \E id \in AccountIds, amount \in Amounts :
       RoomInHistory /\ Withdraw(id, amount) /\ InBounds(accounts')
  \/ \E f \in AccountIds, t \in AccountIds, amount \in Amounts :
       RoomInHistory /\ Transfer(f, t, amount) /\ InBounds(accounts')
  \/ UndoLast /\ InBounds(accounts')

Spec == Init /\ [][Next]_vars

\* Every operation of the program: the ledger of one customer, with the
\* operations that are not commands exercised on the first account.
NextApp ==
  \/ \E name \in Names : Len(customers) = 0 /\ AddCustomer(name)
  \/ \E type \in {"savings"}, ownerIdx \in {0}, initial \in {0} :
       RoomForAccount /\ CreateAccount(type, ownerIdx, initial)
  \/ \E id \in AccountIds, amount \in Amounts :
       RoomInHistory /\ Deposit(id, amount) /\ InBounds(accounts')
  \/ \E id \in AccountIds, amount \in Amounts :
       RoomInHistory /\ Withdraw(id, amount) /\ InBounds(accounts')
  \/ \E f \in AccountIds, t \in AccountIds, amount \in Amounts :
       RoomInHistory /\ Transfer(f, t, amount) /\ InBounds(accounts')
  \/ UndoLast /\ InBounds(accounts')
  \/ \E id \in {0, 1}, key \in {"fixed"} : ApplyStrategy(id, key)
  \/ \E id \in {0, 1} : CalcInterest(id)
  \/ Attach(1, 1)
  \/ Detach(1, 1)

SpecApp == Init /\ [][NextApp]_vars

\* Observers: two customers attached to and detached from the accounts while
\* unit amounts are moved and undone.
NextObservers ==
  \/ \E name \in Names : RoomForCustomer /\ AddCustomer(name)
  \/ \E type \in {"savings"}, ownerIdx \in {0}, initial \in {1} :
       RoomForAccount /\ CreateAccount(type, ownerIdx, initial)
  \/ \E id \in AccountIds, amount \in {1} :
       RoomInHistory /\ Deposit(id, amount) /\ InBounds(accounts')
  \/ \E id \in AccountIds, amount \in {1} :
       RoomInHistory /\ Withdraw(id, amount) /\ InBounds(accounts')
  \/ \E f \in AccountIds, t \in AccountIds, amount \in {1} :
       RoomInHistory /\ Transfer(f, t, amount) /\ InBounds(accounts')
  \/ UndoLast /\ InBounds(accounts')
  \/ \E i \in 1 .. MaxAccounts, c \in 1 .. MaxCustomers : Attach(i, c)
  \/ \E i \in 1 .. MaxAccounts, c \in 1 .. MaxCustomers : Detach(i, c)

SpecObservers == Init /\ [][NextObservers]_vars

\* Interest: accounts of every type, strategies swapped, balances raised by deposits.
NextInterest ==
  \/ \E name \in Names : Len(customers) = 0 /\ AddCustomer(name)
  \/ \E type \in AcctTypes, ownerIdx \in {0}, initial \in InitialBalances :
       RoomForAccount /\ CreateAccount(type, ownerIdx, initial)
  \/ \E id \in AccountIds, amount \in {1} :
       RoomInHistory /\ Deposit(id, amount) /\ InBounds(accounts')
  \/ \E id \in AccountIds, key \in StrategyKeys : ApplyStrategy(id, key)
  \/ \E id \in AccountIds : CalcInterest(id)

SpecInterest == Init /\ [][NextInterest]_vars

\* Transfers among one account more than the other specifications hold, so that
\* every transfer has a bystander.
NextTransfer ==
  \/ \E name \in Names : Len(customers) = 0 /\ AddCustomer(name)
  \/ \E type \in {"current"}, ownerIdx \in {0}, initial \in {1} :
       Len(accounts) < MaxAccounts + 1 /\ CreateAccount(type, ownerIdx, initial)
  \/ \E f \in 0 .. (MaxAccounts + 1), t \in 0 .. (MaxAccounts + 1), amount \in Amounts :
       RoomInHistory /\ Transfer(f, t, amount) /\ InBounds(accounts')
  \/ UndoLast /\ InBounds(accounts')

SpecTransfer == Init /\ [][NextTransfer]_vars

\* The ledger with every amount the handlers pass on: Number(v) || 0 lets
\* zero and negative amounts through, and no layer below rejects them.
NextSigned ==
  \/ \E name \in Names : Len(customers) = 0 /\ AddCustomer(name)
  \/ \E type \in {"savings"}, ownerIdx \in {0}, initial \in {1} :
       RoomForAccount /\ CreateAccount(type, ownerIdx, initial)
  \/ \E id \in AccountIds, amount \in SignedAmounts :
       RoomInHistory /\ Deposit(id, amount) /\ InBounds(accounts')
  \/ \E id \in AccountIds, amount \in SignedAmounts :
       RoomInHistory /\ Withdraw(id, amount) /\ InBounds(accounts')
  \/ \E f \in AccountIds, t \in AccountIds, amount \in SignedAmounts :
       RoomInHistory /\ Transfer(f, t, amount) /\ InBounds(accounts')
  \/ UndoLast /\ InBounds(accounts')

SpecSigned == Init /\ [][NextSigned]_vars

\* The ledger with the audit trail switched on.
InitAudit ==
  /\ customers = <<>>
  /\ accounts = <<>>
  /\ accountIdSeq = 1
  /\ history = <<>>
  /\ notified = <<>>
  /\ lastOp = Op("init", "ok")
  /\ run = NoRun
  /\ audit = AuditOn

RoomForCommand == audit.issued < MaxCommands

NextAudit ==
  \/ \E name \in Names : Len(customers) = 0 /\ AddCustomer(name)
  \/ \E type \in {"savings"}, ownerIdx \in {0}, initial \in {1} :
       RoomForAccount /\ CreateAccount(type, ownerIdx, initial)
  \/ \E id \in AccountIds, amount \in Amounts :
       RoomForCommand /\ RoomInHistory /\ Deposit(id, amount) /\ InBounds(accounts')
  \/ \E id \in AccountIds, amount \in Amounts :
       RoomForCommand /\ RoomInHistory /\ Withdraw(id, amount) /\ InBounds(accounts')
  \/ \E f \in AccountIds, t \in AccountIds, amount \in Amounts :
       RoomForCommand /\ RoomInHistory /\ Transfer(f, t, amount) /\ InBounds(accounts')
  \/ UndoLast /\ InBounds(accounts')

SpecAudit == InitAudit /\ [][NextAudit]_vars

\* ---------------------------------------------------------------------
\* Properties
\* ---------------------------------------------------------------------
Last(h) == h[Len(h)]

\* C1: executeCommand of a Deposit, Withdraw or Transfer whose execute mutated
\* state, immediately followed by undoLast, leaves every account's balance
\* equal to its balance before executeCommand.
C1_ExecuteThenUndoRestores ==
  (lastOp.op = "undoLast" /\ lastOp.status = "undone" /\ lastOp.follows /\ lastOp.cmd.applied)
    => Balances(accounts) = lastOp.pre

\* A = MaxAmount, B = 0, transfer 1 from A to B, then undoLast: back to A = MaxAmount, B = 0
C1_Witness ==
  /\ lastOp.op = "undoLast" /\ lastOp.follows
  /\ lastOp.cmd = [type |-> "Transfer", from |-> 1, to |-> 2, amount |-> 1, applied |-> TRUE]
  /\ Balances(accounts) = <<MaxAmount, 0>>

\* C2: a Withdraw, or a Transfer from a source, with amount greater than that
\* account's balance changes no balance and emits exactly one message: the
\* insufficient-funds notice naming the account; no observer is notified.
C2_InsufficientFundsAborts ==
  (/\ lastOp.op \in {"withdraw", "transfer"}
   /\ lastOp.cmd # NoCmd
   /\ lastOp.cmd.amount > lastOp.pre[lastOp.cmd.from])
    => /\ Balances(accounts) = lastOp.pre
       /\ Len(notified) = 1
       /\ notified[1].to = 0
       /\ notified[1].acct = accounts[lastOp.cmd.from].id
       /\ notified[1].text = (IF lastOp.op = "withdraw"
                              THEN "Withdraw failed: insufficient funds"
                              ELSE "Transfer failed: insufficient funds")

C2_Witness ==
  /\ lastOp.op = "transfer" /\ lastOp.status = "aborted"
  /\ Len(accounts[lastOp.cmd.from].observers) > 0
  /\ lastOp.cmd.amount = accounts[lastOp.cmd.from].balance + 1

\* C3: a command whose execute aborted on its guard is never on the history,
\* and undoLast never undoes a command whose execute did not mutate state.
C3_AbortedNeverOnHistory ==
  /\ \A k \in 1 .. Len(history) : history[k].applied
  /\ (lastOp.op = "undoLast" /\ lastOp.cmd # NoCmd) => lastOp.cmd.applied

\* C4: executeCommand lengthens the history by exactly one on every call, also
\* when execute aborted; undoLast of an aborted Withdraw credits the account by
\* amount, and of an aborted Transfer credits the source and debits the
\* destination by amount, all other balances unchanged.
C4_AbortedPushedAndReversed ==
  [][/\ (lastOp'.op \in ExecuteOps /\ lastOp'.status \in {"applied", "aborted"})
          => /\ Len(history') = Len(history) + 1
             /\ SubSeq(history', 1, Len(history)) = history
             /\ Last(history').applied = (lastOp'.status = "applied")
     /\ (lastOp'.op = "undoLast" /\ Len(history) > 0 /\ ~Last(history).applied)
          => LET cmd == Last(history)
             IN /\ history' = SubSeq(history, 1, Len(history) - 1)
                /\ cmd.type \in {"Withdraw", "Transfer"}
                /\ \A i \in 1 .. Len(accounts) :
                     accounts'[i].balance =
                       accounts[i].balance + (IF i = cmd.from THEN cmd.amount
                                              ELSE IF i = cmd.to THEN 0 - cmd.amount
                                              ELSE 0)]_vars

\* withdraw 1 from an empty account aborts; the undoLast right after leaves balance 1
C4_Witness ==
  /\ lastOp.op = "undoLast" /\ lastOp.follows
  /\ lastOp.cmd = [type |-> "Withdraw", from |-> 1, to |-> 0, amount |-> 1, applied |-> FALSE]
  /\ accounts[1].balance = 1

\* C5: undoLast on an empty history changes no balance (nor anything else of the
\* ledger), leaves the history empty, notifies no observer and emits exactly the
\* one notice 'Nothing to undo', on every such call.
C5_EmptyUndoIsNoOp ==
  [][(lastOp'.op = "undoLast" /\ history = <<>>)
       => /\ accounts' = accounts
          /\ history' = <<>>
          /\ customers' = customers
          /\ accountIdSeq' = accountIdSeq
          /\ notified' = <<Notice("Nothing to undo", 0)>>]_vars

\* a second undoLast on an empty history, with accounts present
C5_Witness ==
  /\ lastOp.op = "undoLast" /\ lastOp.status = "rejected" /\ lastOp.follows
  /\ Len(accounts) = MaxAccounts

\* C6: over a run of deposits and withdrawals on one account that each succeed,
\* the account's balance is its balance at the start of the run plus the sum of
\* the signed amounts, and every other account's balance is unchanged.
C6_BalanceIsStartPlusSum ==
  run.acct # 0 =>
    /\ Len(run.start) = Len(accounts)
    /\ \A i \in 1 .. Len(accounts) :
         accounts[i].balance = run.start[i] + (IF i = run.acct THEN run.sum ELSE 0)

\* a deposit and a withdrawal of different amounts in one run, a second account present
C6_Witness ==
  /\ run.acct = 1 /\ run.n = 2 /\ run.sum = 1
  /\ Len(accounts) = 2

\* the change cmd.execute() makes to the balance of the account at position i
ForwardDelta(cmd, i) ==
  CASE cmd.type = "Deposit" -> (IF i = cmd.from THEN cmd.amount ELSE 0)
    [] cmd.type = "Withdraw" -> (IF i = cmd.from THEN 0 - cmd.amount ELSE 0)
    [] cmd.type = "Transfer" -> (IF i = cmd.from THEN 0 - cmd.amount
                                 ELSE IF i = cmd.to THEN cmd.amount ELSE 0)

\* C7: the history is a stack: it changes only by executeCommand appending the
\* executed command at the tail, or by undoLast removing exactly the tail
\* element and reversing that command only; no other operation changes it.
C7_HistoryIsStack ==
  [][LET grows == /\ Len(history') = Len(history) + 1
                  /\ SubSeq(history', 1, Len(history)) = history
         pops == /\ Len(history) > 0
                 /\ history' = SubSeq(history, 1, Len(history) - 1)
     IN /\ history' = history \/ grows \/ pops
        /\ grows => lastOp'.op \in ExecuteOps /\ Last(history') = lastOp'.cmd
        /\ pops => /\ lastOp'.op = "undoLast"
                   /\ \A i \in 1 .. Len(accounts) :
                        accounts'[i].balance =
                          accounts[i].balance - ForwardDelta(Last(history), i)
        /\ (lastOp'.op = "undoLast" /\ Len(history) > 0) => pops
        /\ (lastOp'.op \in ExecuteOps /\ lastOp'.status # "rejected") => grows]_vars

\* deposit MaxAmount, deposit 1, undoLast: only the second deposit is reversed
C7_Witness ==
  /\ lastOp.op = "undoLast" /\ lastOp.follows
  /\ lastOp.cmd = [type |-> "Deposit", from |-> 1, to |-> 0, amount |-> 1, applied |-> TRUE]
  /\ history = <<[type |-> "Deposit", from |-> 1, to |-> 0, amount |-> MaxAmount,
                  applied |-> TRUE]>>
  /\ accounts[1].balance = MaxAmount

\* whether the latest operation called updateBalance on the account at position i
Updated(i) ==
  /\ \/ lastOp.op \in ExecuteOps /\ lastOp.status = "applied"
     \/ lastOp.op = "undoLast" /\ lastOp.status = "undone"
  /\ i \in {lastOp.cmd.from, lastOp.cmd.to}
Deliveries(msgs, id, c) == Len(SelectSeq(msgs, LAMBDA m : m.acct = id /\ m.to = c))

\* C8: an account's observer list never holds the same observer twice, and each
\* updateBalance call delivers exactly one notification to each attached
\* observer (none to the others), however often that observer was attached.
C8_AttachIdempotent ==
  \A i \in 1 .. Len(accounts) :
    /\ \A j, k \in 1 .. Len(accounts[i].observers) :
         accounts[i].observers[j] = accounts[i].observers[k] => j = k
    /\ \A c \in 1 .. Len(customers) :
         Deliveries(notified, accounts[i].id, c) =
           (IF Updated(i) /\ Includes(accounts[i].observers, c) THEN 1 ELSE 0)

\* the owner, attached by createAccount, is attached again next to a second observer
C8_Witness ==
  /\ lastOp.op = "attach" /\ lastOp.status = "present"
  /\ \E i \in 1 .. Len(accounts) :
       /\ accounts[i].id = lastOp.acct
       /\ Len(accounts[i].observers) = 2

\* C9: calculateInterest changes no balance, history, observer list or strategy,
\* however often it is called, and returns 3% of the balance under the Savings
\* strategy, 7% under FixedDeposit and 0 under Current (values in hundredths);
\* a new account starts with the strategy of its type (Generic: Current), and
\* Savings on 1500 gives 45.00.
C9_CalculateInterestPure ==
  [][/\ lastOp'.op = "calcInterest" =>
          /\ accounts' = accounts
          /\ history' = history
          /\ customers' = customers
          /\ accountIdSeq' = accountIdSeq
          /\ lastOp'.status = "ok" =>
               \E i \in 1 .. Len(accounts) :
                 /\ accounts[i].id = lastOp'.acct
                 /\ lastOp'.ret =
                      (CASE accounts[i].interestStrategy = "savings" -> 3 * accounts[i].balance
                         [] accounts[i].interestStrategy = "fixed" -> 7 * accounts[i].balance
                         [] accounts[i].interestStrategy = "current" -> 0)
     /\ (lastOp'.op = "createAccount" /\ lastOp'.status = "ok") =>
          /\ Len(accounts') = Len(accounts) + 1
          /\ Last(accounts').interestStrategy =
               (CASE Last(accounts').typeName = "Savings" -> "savings"
                  [] Last(accounts').typeName = "FixedDeposit" -> "fixed"
                  [] Last(accounts').typeName \in {"Current", "Generic"} -> "current")
     /\ StrategyCalculate("savings", 1500) = 4500]_vars

\* a repeated calculation on a Savings account holding MaxAmount
C9_Witness ==
  /\ lastOp.op = "calcInterest" /\ lastOp.status = "ok" /\ lastOp.follows
  /\ lastOp.ret = 3 * MaxAmount
  /\ \E i \in 1 .. Len(accounts) :
       /\ accounts[i].id = lastOp.acct
       /\ accounts[i].typeName = "Savings" /\ accounts[i].interestStrategy = "savings"
       /\ accounts[i].balance = MaxAmount

\* C10: every change of an existing account's balance comes with exactly one
\* notification, carrying the account id, the signed delta and the resulting
\* balance, to each observer attached to that account, in attachment order.
C10_ChangeAlwaysNotified ==
  [][\A i \in 1 .. Len(accounts) :
       accounts'[i].balance # accounts[i].balance =>
         LET obs == accounts[i].observers
             ms == SelectSeq(notified', LAMBDA m : m.acct = accounts[i].id /\ m.to # 0)
         IN /\ Len(ms) = Len(obs)
            /\ \A k \in 1 .. Len(obs) :
                 /\ ms[k].to = obs[k]
                 /\ ms[k].name = customers[obs[k]]
                 /\ ms[k].delta = accounts'[i].balance - accounts[i].balance
                 /\ ms[k].balance = accounts'[i].balance]_vars

\* the undo of a transfer notifies the source's two observers, second-attached first
\* in the list, and then the destination's owner
C10_Witness ==
  /\ lastOp.op = "undoLast" /\ lastOp.cmd.type = "Transfer" /\ lastOp.cmd.applied
  /\ accounts[lastOp.cmd.from].observers = <<2, 1>>
  /\ Len(notified) = 3
  /\ notified[1].to = 2 /\ notified[2].to = 1 /\ notified[3].to = 1
  /\ notified[3].acct = accounts[lastOp.cmd.to].id

\* C11: transfer with fromId and toId resolving to the same account is
\* rejected before a command is built: customers, accounts (so every balance),
\* id counter and history are unchanged, no observer is notified, the one
\* message is the notice 'Cannot transfer to same account'; and no Transfer
\* on the history has from equal to to.
C11_SelfTransferRejected ==
  [][/\ (/\ lastOp'.op = "transfer"
         /\ \E id \in AccountIds, amount \in Amounts :
              FindAccountById(accounts, id) # 0 /\ Transfer(id, id, amount))
          => /\ UNCHANGED <<customers, accounts, accountIdSeq, history>>
             /\ notified' = <<Notice("Cannot transfer to same account", 0)>>
     /\ \A k \in 1 .. Len(history') :
          history'[k].type = "Transfer" => history'[k].from # history'[k].to]_vars

\* a self-transfer refused while a transfer between two accounts is on the history
C11_Witness ==
  /\ lastOp.op = "transfer" /\ lastOp.status = "rejected"
  /\ notified = <<Notice("Cannot transfer to same account", 0)>>
  /\ Len(history) > 0 /\ Last(history).type = "Transfer"

\* C12: deposit, withdraw, transfer, applyStrategy and calcInterest given an id
\* that matches no account, and createAccount given an owner index that matches
\* no customer, change neither customers, accounts (balances, strategies,
\* observers), id counter nor history, and emit exactly one message, an
\* operational notice.
C12_InvalidReferenceAborts ==
  [][(\/ /\ lastOp'.op \in {"deposit", "withdraw"}
         /\ \E id \in AccountIds, amount \in Amounts :
              /\ FindAccountById(accounts, id) = 0
              /\ Deposit(id, amount) \/ Withdraw(id, amount)
      \/ /\ lastOp'.op = "transfer"
         /\ \E f \in AccountIds, t \in AccountIds, amount \in Amounts :
              /\ FindAccountById(accounts, f) = 0 \/ FindAccountById(accounts, t) = 0
              /\ Transfer(f, t, amount)
      \/ /\ lastOp'.op = "applyStrategy"
         /\ \E id \in AccountIds, key \in StrategyKeys :
              FindAccountById(accounts, id) = 0 /\ ApplyStrategy(id, key)
      \/ /\ lastOp'.op = "calcInterest"
         /\ \E id \in AccountIds : FindAccountById(accounts, id) = 0 /\ CalcInterest(id)
      \/ /\ lastOp'.op = "createAccount"
         /\ \E type \in AcctTypes, ownerIdx \in OwnerIdxs, initial \in InitialBalances :
              ownerIdx + 1 > Len(customers) /\ CreateAccount(type, ownerIdx, initial))
       => /\ UNCHANGED <<customers, accounts, accountIdSeq, history>>
          /\ Len(notified') = 1
          /\ notified'[1].to = 0
          /\ lastOp'.ret = 0]_vars

\* applyStrategy on an id never issued, with an account and a history present
C12_Witness ==
  /\ lastOp.op = "applyStrategy" /\ lastOp.status = "rejected"
  /\ notified = <<Notice("Select account to apply strategy", 0)>>
  /\ Len(accounts) > 0 /\ Len(history) > 0

\* C13: account ids are unique and strictly increasing in creation order, every
\* issued id is below the counter (so none is issued again), the counter never
\* decreases, and no operation changes or removes an existing account's id.
C13_IdsStrictlyIncreasing ==
  [][/\ \A i, j \in 1 .. Len(accounts') : i < j => accounts'[i].id < accounts'[j].id
     /\ \A i \in 1 .. Len(accounts') : accounts'[i].id < accountIdSeq'
     /\ accountIdSeq' >= accountIdSeq
     /\ Len(accounts') >= Len(accounts)
     /\ \A i \in 1 .. Len(accounts) : accounts'[i].id = accounts[i].id]_vars

\* the second account has just been created, after commands ran on the first
C13_Witness ==
  /\ lastOp.op = "createAccount" /\ lastOp.status = "ok"
  /\ Len(accounts) = 2 /\ accounts[1].id = 1 /\ accounts[2].id = 2
  /\ accountIdSeq = 3
  /\ Len(history) > 0

\* C14: applyStrategy(accountId, key), key one of savings, current, fixed, on an
\* existing account sets that account's strategy to key and changes nothing
\* else: every balance, observer list, id, type, the other accounts' strategies
\* and the history stay; a calcInterest on that account right after returns
\* the value of the new strategy.
C14_ApplyStrategyOnlyTarget ==
  [][/\ lastOp'.op = "applyStrategy" =>
          \A id \in AccountIds, key \in StrategyKeys :
            (FindAccountById(accounts, id) # 0 /\ ApplyStrategy(id, key)) =>
              LET i == FindAccountById(accounts, id)
              IN /\ accounts'[i].interestStrategy = key
                 /\ accounts' = [accounts EXCEPT ![i].interestStrategy = key]
                 /\ UNCHANGED <<customers, accountIdSeq, history>>
     /\ (lastOp.op = "applyStrategy" /\ lastOp.status = "ok"
         /\ lastOp'.op = "calcInterest" /\ lastOp'.acct = lastOp.acct) =>
          \E i \in 1 .. Len(accounts) :
            /\ accounts[i].id = lastOp.acct
            /\ lastOp'.ret =
                 (CASE accounts[i].interestStrategy = "savings" -> 3 * accounts[i].balance
                    [] accounts[i].interestStrategy = "fixed" -> 7 * accounts[i].balance
                    [] accounts[i].interestStrategy = "current" -> 0)]_vars

\* a Savings account switched to the fixed strategy yields 7% while the other
\* account keeps the strategy of its type
C14_Witness ==
  /\ lastOp.op = "calcInterest" /\ lastOp.status = "ok" /\ ~lastOp.follows
  /\ Len(accounts) = 2
  /\ \E i \in 1 .. 2 :
       /\ accounts[i].id = lastOp.acct
       /\ accounts[i].typeName = "Savings" /\ accounts[i].interestStrategy = "fixed"
       /\ accounts[i].balance = MaxAmount /\ lastOp.ret = 7 * MaxAmount
       /\ accounts[3 - i].typeName = "Savings" /\ accounts[3 - i].interestStrategy = "savings"

\* the messages of one updateBalance(delta) on the account at position i that
\* left it at balance b: one per observer, in list order
UpdateMsgsMatch(msgs, i, delta, b) ==
  /\ Len(msgs) = Len(accounts[i].observers)
  /\ \A k \in 1 .. Len(msgs) :
       /\ msgs[k].to = accounts[i].observers[k]
       /\ msgs[k].acct = accounts[i].id
       /\ msgs[k].delta = delta
       /\ msgs[k].balance = b

\* C16: a successful Transfer.execute first debits the source and notifies the
\* source's observers, then credits the destination and notifies its
\* observers; Transfer.undo first credits the source, then debits the
\* destination; the operation emits nothing else in between or around.
C16_TransferOrder ==
  (lastOp.cmd.type = "Transfer"
   /\ \/ lastOp.op = "transfer" /\ lastOp.status = "applied"
      \/ lastOp.op = "undoLast" /\ lastOp.status = "undone")
    => LET cmd == lastOp.cmd
           n == Len(accounts[cmd.from].observers)
           first == IF lastOp.op = "transfer" THEN 0 - cmd.amount ELSE cmd.amount
       IN /\ Len(notified) = n + Len(accounts[cmd.to].observers)
          /\ UpdateMsgsMatch(SubSeq(notified, 1, n), cmd.from, first,
                             accounts[cmd.from].balance)
          /\ UpdateMsgsMatch(SubSeq(notified, n + 1, Len(notified)), cmd.to, 0 - first,
                             accounts[cmd.to].balance)

\* a transfer out of an account with two observers into an account with one
C16_Witness ==
  /\ lastOp.op = "transfer" /\ lastOp.status = "applied"
  /\ Len(accounts[lastOp.cmd.from].observers) = 2
  /\ Len(accounts[lastOp.cmd.to].observers) = 1
  /\ notified[1].delta = 0 - 1 /\ notified[3].delta = 1

\* C17: with non-negative initial balances and positive amounts, a step that
\* takes an existing account's balance from non-negative to negative is an
\* undoLast; no deposit, withdraw or transfer does so, and an account is never
\* created with a negative balance.
C17_OnlyUndoGoesNegative ==
  [][/\ \A i \in 1 .. Len(accounts) :
          (accounts[i].balance >= 0 /\ accounts'[i].balance < 0)
            => lastOp'.op = "undoLast" /\ lastOp'.status = "undone"
     /\ \A i \in (Len(accounts) + 1) .. Len(accounts') : accounts'[i].balance >= 0]_vars

\* the undo of an aborted transfer debits a destination that held nothing
C17_Witness ==
  /\ lastOp.op = "undoLast" /\ lastOp.cmd.type = "Transfer" /\ ~lastOp.cmd.applied
  /\ accounts[lastOp.cmd.to].balance = 0 - lastOp.cmd.amount

RECURSIVE SumSeq(_)
SumSeq(s) == IF Len(s) = 0 THEN 0 ELSE s[1] + SumSeq(Tail(s))
TotalBalance(accts) == SumSeq(Balances(accts))

\* C19: every transfer call (applied, aborted on the guard, or rejected) and
\* every undo of a Transfer (also of an aborted one) leaves the sum of all
\* balances unchanged and changes no balance other than the command's source
\* and destination.
C19_TransferConservesMoney ==
  [][(\/ lastOp'.op = "transfer"
      \/ lastOp'.op = "undoLast" /\ lastOp'.cmd.type = "Transfer")
       => /\ Len(accounts') = Len(accounts)
          /\ TotalBalance(accounts') = TotalBalance(accounts)
          /\ \A i \in 1 .. Len(accounts) :
               i \notin {lastOp'.cmd.from, lastOp'.cmd.to}
                 => accounts'[i].balance = accounts[i].balance]_vars

\* the undo of an aborted transfer with a third account standing by
C19_Witness ==
  /\ lastOp.op = "undoLast" /\ lastOp.cmd.type = "Transfer" /\ ~lastOp.cmd.applied
  /\ Len(accounts) = MaxAccounts + 1
  /\ accounts[lastOp.cmd.from].balance # 1 /\ accounts[lastOp.cmd.to].balance # 1


\* C20: for every amount the interface passes on, zero and negative ones
\* included, an executed Deposit has not decreased its account's balance, an
\* executed Withdraw has not increased it, and an executed Transfer has neither
\* increased the source's balance nor decreased the destination's.
C20_ExecuteDirection ==
  (lastOp.op \in ExecuteOps /\ lastOp.status # "rejected")
    => LET cmd == lastOp.cmd
           was(i) == lastOp.pre[i]
           now(i) == accounts[i].balance
       IN /\ cmd.type = "Deposit" => now(cmd.from) >= was(cmd.from)
          /\ cmd.type = "Withdraw" => now(cmd.from) <= was(cmd.from)
          /\ cmd.type = "Transfer" => now(cmd.from) <= was(cmd.from) /\ now(cmd.to) >= was(cmd.to)


\* C15: through the TransactionManager every command instance is executed at
\* most once and undone at most once, is undone only after it was executed,
\* and once undone is no longer on the history (so it is never undone or
\* executed again); the history holds each instance at most once.
C15_ExecutedOnceUndoneOnce ==
  audit.on =>
    /\ Len(audit.serials) = Len(history)
    /\ \A s \in 1 .. audit.issued :
         /\ audit.executed[s] <= 1
         /\ audit.undone[s] <= audit.executed[s]
         /\ audit.undone[s] >= 1 => \A p \in 1 .. Len(audit.serials) : audit.serials[p] # s
    /\ \A p \in 1 .. Len(audit.serials), q \in 1 .. Len(audit.serials) :
         audit.serials[p] = audit.serials[q] => p = q

\* an instance was undone and others have been executed since; the history is in use
C15_Witness ==
  /\ audit.on /\ audit.issued = MaxCommands /\ Len(history) >= 1
  /\ audit.undone[1] = 1 /\ audit.undone[MaxCommands] = 0

\* C18: as long as no command has aborted on a guard, every undoLast that pops
\* a command leaves the balances as they were just before that command's
\* execute (an account created since has its creation balance), so k undoLast
\* calls in a row lead back to the balances before the last k commands, and
\* whenever the history is empty every account has its creation balance.
C18_UndoRestoresSnapshots ==
  (audit.on /\ audit.clean) =>
    /\ (lastOp.op = "undoLast" /\ lastOp.status = "undone")
         => \A i \in 1 .. Len(accounts) :
              accounts[i].balance = IF i <= Len(audit.restored) THEN audit.restored[i]
                                    ELSE audit.opening[i]
    /\ history = <<>> => Balances(accounts) = audit.opening

\* MaxHistory commands over two accounts, none aborted, all undone in one row
C18_Witness ==
  /\ audit.on /\ audit.clean /\ audit.streak = MaxHistory /\ history = <<>>
  /\ lastOp.op = "undoLast" /\ lastOp.cmd.type = "Transfer"
  /\ audit.issued = MaxHistory

====
